---- MODULE Spec2Model ----
(***************************************************************************)
(* Observable properties and bindings of AdvancedJSObjects.                *)
(*                                                                         *)
(* ReadOnlyProperty (listener set, notify), Property (set, bind, unbind),  *)
(* ReadOnlyPropertyWrapper (readOnly view, overridden set), NumberProperty *)
(* (checked set, arithmetic) and Binding (compute, listener, unbind).      *)
(*                                                                         *)
(* Everything is synchronous: a public call runs its whole notification    *)
(* cascade before it returns, so one action is one public call, and the    *)
(* cascade is the recursive operator family notify / Invoke / set /        *)
(* listener below.  A failed assert is a thrown exception: the cascade     *)
(* stops where it is (field err) and what was assigned before stays.       *)
(*                                                                         *)
(* Values are pairs <<typeof, n>>.  NaN is not in the value domain, so     *)
(* strict equality (===) of two values is equality of the pairs.           *)
(***************************************************************************)
EXTENDS Integers, Sequences, FiniteSets, TLC

\* ------------------------------------------------------------------ bounds

\* numbers handed to set / arithmetic range over 0..MaxNum
MaxNum == 2

\* ------------------------------------------------------------------ values

Num(n) == <<"number", n>>
Null == <<"null", 0>>
Undefined == <<"undefined", 0>>
Bool(b) == <<"boolean", IF b THEN 1 ELSE 0>>

NumRange == 0..MaxNum
Numbers == {Num(n) : n \in NumRange}

\* ToNumber of the operands of +, - and >=: null is 0, false 0, true 1.
\* (No property or Binding read by a compute function holds undefined.)
ToNumber(v) == v[2]

\* NumberProperty.isNumber
isNumber(num) == num # Undefined /\ num # Null /\ num[1] = "number"

\* ------------------------------------------------------------------ objects

Props == {"p1", "p2", "p3"}
Views == {"v1", "v2", "v3"}
Bindings == {"B1", "B2"}
Observables == Props \cup Views \cup Bindings
\* the null reference
NoObj == "null"
\* a value that is an object but no ReadOnlyProperty
Foreign == "obj"

ViewOf(p) == CASE p = "p1" -> "v1" [] p = "p2" -> "v2" [] p = "p3" -> "v3"
OwnerOf(v) == CASE v = "v1" -> "p1" [] v = "v2" -> "p2" [] v = "v3" -> "p3"

\* callbacks, by reference identity
Plain == {"L1", "L2"}
PlainCb(l) == <<"plain", l>>
\* Property p's observedCallback
FwdCb(p) == <<"fwd", p>>
\* Binding b's listener
BindingCb(b) == <<"binding", b>>
\* a listener that resets the property that notifies it:
\* function(property) { property.set(0); }
ReentrantCb == <<"reentrant", "L3">>

\* the wrapper's readOnly before the first call of instance.readOnly (null)
NoView == 0

VARIABLES
    kind,        \* kind[p]: the module whose constructor made property p
    value,       \* value[p]: Property's local 'value'
    observing,   \* observing[p]: Property's local 'observing'
    readOnly,    \* readOnly[p]: the wrapper's local 'readOnly': NoView for null, else the
                 \* serial number of the ReadOnlyProperty the wrapper constructed for it
    listeners,   \* listeners[o]: ReadOnlyProperty's Set 'listeners', in insertion order
    compute,     \* compute[b]: Binding's compute function: [fn, reads]
    bvalue,      \* bvalue[b]: Binding's local 'value'
    observables, \* observables[b]: Binding's Set 'observables'
    log,         \* callback invocations of the last call: <<callback, property, old, new>>
    op           \* the last call: [name, obj, arg, src, old, ok, srcs, ret, was]

vars == <<kind, value, observing, readOnly, listeners, compute, bvalue, observables, log, op>>

\* ------------------------------------------------------- sequences as Sets

Has(s, x) == \E i \in 1..Len(s) : s[i] = x
\* an add that keeps no Set: the element is appended whether or not it is there
SetAdd_duplicates(s, x) == Append(s, x)

\* an add that moves an element already in the Set to the end
SetAdd_reinserts(s, x) == Append(SelectSeq(s, LAMBDA y : y # x), x)

\* Set.prototype.add
SetAdd(s, x) == IF Has(s, x) THEN s ELSE Append(s, x)
\* Set.prototype.delete
SetDelete(s, x) == SelectSeq(s, LAMBDA y : y # x)

\* --------------------------------------------------------------- the heap

\* The part of the state a running call reads and writes.
Cur == [value |-> value, bvalue |-> bvalue, listeners |-> listeners,
        observing |-> observing, log |-> <<>>, err |-> FALSE,
        depth |-> 0, overflow |-> FALSE]

\* the number of nested notifications the call stack of the engine holds
MaxDepth == 6

\* a call the stack has no room for: the engine throws a RangeError
Overflow(st) == [st EXCEPT !.err = TRUE, !.overflow = TRUE]

\* a failed assert
Throw(st) == [st EXCEPT !.err = TRUE]

\* get of a view that returns the value its wrapper was constructed with
Get_viewOfArgument(st, o) ==
    IF o \in Props THEN st.value[o]
    ELSE IF o \in Views
         THEN IF kind[OwnerOf(o)] = "NumberProperty" THEN Num(0) ELSE Null
    ELSE st.bvalue[o]

\* instance.get; a view's getCallback returns instance.get() of its wrapper
Get(st, o) ==
    IF o \in Props THEN st.value[o]
    ELSE IF o \in Views THEN st.value[OwnerOf(o)]
    ELSE st.bvalue[o]

RECURSIVE SumOf(_, _)
SumOf(st, S) ==
    IF S = {} THEN 0
    ELSE LET o == CHOOSE x \in S : TRUE
         IN ToNumber(Get(st, o)) + SumOf(st, S \ {o})

\* the compute functions handed to Binding.new: the sum of the properties read,
\* whether that sum reaches Threshold, and the sum where it is positive (a
\* function that returns nothing otherwise, that is, undefined)
Threshold == MaxNum
Compute(st, c) ==
    IF c.fn = "sum" THEN Num(SumOf(st, c.reads))
    ELSE IF c.fn = "ifPositive"
         THEN (IF SumOf(st, c.reads) > 0 THEN Num(SumOf(st, c.reads)) ELSE Undefined)
    ELSE Bool(SumOf(st, c.reads) >= Threshold)

\* ----------------------------------------------------------- notification

RECURSIVE notify(_, _, _), NotifyFrom(_, _, _, _, _), Invoke(_, _, _, _, _),
          set(_, _, _), listener(_, _), instance_set(_, _, _)

\* notify that hands the listeners the new value as the old one
notify_noOld(st, o, oldValue) ==
    IF st.err THEN st
    ELSE IF oldValue = Undefined THEN Throw(st)
    ELSE NotifyFrom(st, o, Get(st, o), Get(st, o), 1)

\* prot.notify; every notification in progress holds a frame of the stack
notify(st, o, oldValue) ==
    IF st.err THEN st
    ELSE IF st.depth = MaxDepth THEN Overflow(st)
    ELSE IF oldValue = Undefined THEN Throw(st)
    ELSE [NotifyFrom([st EXCEPT !.depth = @ + 1], o, oldValue, Get(st, o), 1)
              EXCEPT !.depth = st.depth]

RECURSIVE NotifyFrom_reverse(_, _, _, _, _)
\* a loop that runs through the listeners from the last registered to the first
NotifyFrom_reverse(st, o, oldValue, newValue, i) ==
    IF st.err \/ i > Len(st.listeners[o]) THEN st
    ELSE NotifyFrom_reverse(
             Invoke(st, st.listeners[o][Len(st.listeners[o]) + 1 - i], o, oldValue, newValue),
             o, oldValue, newValue, i + 1)

\* the for-of loop of prot.notify, from the i-th listener on
NotifyFrom(st, o, oldValue, newValue, i) ==
    IF st.err \/ i > Len(st.listeners[o]) THEN st
    ELSE NotifyFrom(Invoke(st, st.listeners[o][i], o, oldValue, newValue),
                    o, oldValue, newValue, i + 1)

\* an observedCallback that assigns the value and notifies nobody
Invoke_forwardsSilently(st, cb, o, oldValue, newValue) ==
    LET st1 == [st EXCEPT !.log = Append(@, <<cb, o, oldValue, newValue>>)]
    IN  CASE cb[1] = "plain" -> st1
          [] cb[1] = "fwd" -> [st1 EXCEPT !.value[cb[2]] = newValue]
          [] cb[1] = "binding" -> listener(st1, cb[2])

\* listener(instance, oldValue, newValue)
Invoke(st, cb, o, oldValue, newValue) ==
    LET st1 == [st EXCEPT !.log = Append(@, <<cb, o, oldValue, newValue>>)]
    IN  CASE cb[1] = "plain" -> st1
          [] cb[1] = "fwd" -> set(st1, cb[2], newValue)
          [] cb[1] = "binding" -> listener(st1, cb[2])
          [] cb[1] = "reentrant" -> instance_set(st1, o, Num(0))

\* set that notifies without storing newValue
set_keepsOld(st, p, newValue) ==
    IF st.err THEN st
    ELSE IF newValue = Undefined THEN Throw(st)
    ELSE IF st.value[p] = newValue THEN st
    ELSE notify(st, p, st.value[p])

\* set without the early return on an equal value
set_noEqualityCheck(st, p, newValue) ==
    IF st.err THEN st
    ELSE IF newValue = Undefined THEN Throw(st)
    ELSE notify([st EXCEPT !.value[p] = newValue], p, st.value[p])

\* Property's local set: sets the value, ignores bound properties
set(st, p, newValue) ==
    IF st.err THEN st
    ELSE IF newValue = Undefined THEN Throw(st)
    ELSE IF st.value[p] = newValue THEN st
    ELSE notify([st EXCEPT !.value[p] = newValue], p, st.value[p])

\* a listener that does not recompute
listener_stale(st, b) == st

\* a listener that notifies whether or not the value changed
listener_alwaysNotifies(st, b) ==
    LET oldValue == st.bvalue[b]
        st1 == [st EXCEPT !.bvalue[b] = Compute(st, compute[b])]
    IN  notify(st1, b, oldValue)

\* a listener that recomputes but tells no listener of the Binding
listener_silent(st, b) == [st EXCEPT !.bvalue[b] = Compute(st, compute[b])]

\* Binding's listener
listener(st, b) ==
    LET oldValue == st.bvalue[b]
        st1 == [st EXCEPT !.bvalue[b] = Compute(st, compute[b])]
    IN  IF oldValue # st1.bvalue[b] THEN notify(st1, b, oldValue) ELSE st1

\* ------------------------------------------------------------ public set

\* Property's instance.isBound
isBound(st, p) == st.observing[p] # NoObj

\* instance.set without assert(!instance.isBound())
Property_set_unguarded(st, p, newValue) == set(st, p, newValue)

\* Property's instance.set
Property_set(st, p, newValue) ==
    IF isBound(st, p) THEN Throw(st) ELSE set(st, p, newValue)

\* a set override that notifies the view before it calls the base set
Wrapper_set_viewFirst(st, p, newValue) ==
    LET oldValue == Get(st, p)
        st1 == IF readOnly[p] # NoView THEN notify(st, ViewOf(p), oldValue) ELSE st
    IN  IF st1.err THEN st1 ELSE Property_set(st1, p, newValue)

\* ReadOnlyPropertyWrapper's instance.set
Wrapper_set(st, p, newValue) ==
    LET oldValue == Get(st, p)
        st1 == Property_set(st, p, newValue)
    IN  IF readOnly[p] # NoView THEN notify(st1, ViewOf(p), oldValue) ELSE st1

\* a set override that calls Property's local set, which ignores bound state
Number_set_ignoresBound(st, p, newValue) ==
    IF ~isNumber(newValue) THEN Throw(st) ELSE set(st, p, newValue)

\* set override without assert(isNumber(newValue))
Number_set_unchecked(st, p, newValue) == Wrapper_set(st, p, newValue)

\* NumberProperty's instance.set
Number_set(st, p, newValue) ==
    IF ~isNumber(newValue) THEN Throw(st) ELSE Wrapper_set(st, p, newValue)

\* p.set(newValue), by the class of p
instance_set(st, p, newValue) ==
    CASE kind[p] = "Property" -> Property_set(st, p, newValue)
      [] kind[p] = "ReadOnlyPropertyWrapper" -> Wrapper_set(st, p, newValue)
      [] kind[p] = "NumberProperty" -> Number_set(st, p, newValue)

\* ---------------------------------------------------------- bind / unbind

\* unbind that forgets observing.removeListener(observedCallback)
unbind_keepsListener(st, p) ==
    IF ~isBound(st, p) THEN st
    ELSE [st EXCEPT !.observing[p] = NoObj]

\* unbind that asserts the property is bound instead of returning
unbind_asserting(st, p) ==
    IF ~isBound(st, p) THEN Throw(st)
    ELSE [st EXCEPT !.listeners[st.observing[p]] = SetDelete(@, FwdCb(p)),
                    !.observing[p] = NoObj]

\* Property's instance.unbind
unbind(st, p) ==
    IF ~isBound(st, p) THEN st
    ELSE [st EXCEPT !.listeners[st.observing[p]] = SetDelete(@, FwdCb(p)),
                    !.observing[p] = NoObj]

\* ReadOnlyProperty.hasInstance
hasInstance(o) ==
    \/ o \in Props /\ kind[o] # "none"
    \/ o \in Views /\ readOnly[OwnerOf(o)] # NoView
    \/ o \in Bindings /\ compute[o].fn # "none"

\* bind that forgets observing.addListener(observedCallback)
bind_noListener(st, p, binding) ==
    IF binding = NoObj \/ ~hasInstance(binding) THEN Throw(st)
    ELSE IF binding = st.observing[p] THEN st
    ELSE LET st1 == unbind(st, p)
             st2 == [st1 EXCEPT !.observing[p] = binding]
         IN  set(st2, p, Get(st2, binding))

\* bind without the return on the source already bound
bind_noEarlyReturn(st, p, binding) ==
    IF binding = NoObj \/ ~hasInstance(binding) THEN Throw(st)
    ELSE LET st1 == unbind(st, p)
             st2 == [st1 EXCEPT !.observing[p] = binding,
                                !.listeners[binding] = SetAdd(@, FwdCb(p))]
         IN  set(st2, p, Get(st2, binding))

\* bind that unbinds before it checks its argument
bind_unbindsFirst(st, p, binding) ==
    LET st1 == unbind(st, p)
    IN  IF binding = NoObj \/ ~hasInstance(binding) THEN Throw(st1)
        ELSE IF binding = st.observing[p] THEN st
        ELSE LET st2 == [st1 EXCEPT !.observing[p] = binding,
                                    !.listeners[binding] = SetAdd(@, FwdCb(p))]
             IN  set(st2, p, Get(st2, binding))

\* Property's instance.bind
bind(st, p, binding) ==
    IF binding = NoObj \/ ~hasInstance(binding) THEN Throw(st)
    ELSE IF binding = st.observing[p] THEN st
    ELSE LET st1 == unbind(st, p)
             st2 == [st1 EXCEPT !.observing[p] = binding,
                                !.listeners[binding] = SetAdd(@, FwdCb(p))]
         IN  set(st2, p, Get(st2, binding))

\* --------------------------------------------------------------- Binding

\* Binding.new without assert(observables.size > 0)
Binding_new_noSizeAssert(st, b, c, srcs) == [st EXCEPT !.bvalue[b] = Compute(st, c)]

\* the body of Binding.new up to the registration loop: the asserts on
\* compute and observables, then value = compute()
Binding_new(st, b, c, srcs) ==
    IF srcs = {} THEN Throw(st)
    ELSE [st EXCEPT !.bvalue[b] = Compute(st, c)]

RECURSIVE Register(_, _, _)
\* the loop of Binding.new that adds the listener to every observable
Register(st, b, srcs) ==
    IF st.err \/ srcs = {} THEN st
    ELSE LET o == CHOOSE x \in srcs : TRUE
         IN  IF o = NoObj \/ ~hasInstance(o) THEN Throw(st)
             ELSE Register([st EXCEPT !.listeners[o] = SetAdd(@, BindingCb(b))],
                           b, srcs \ {o})

\* unbind that clears the Set of observables and removes no listener
Unregister_none(st, b, srcs) == st

RECURSIVE Unregister(_, _, _)
\* the function instance.unbind of a Binding: removes the listener from
\* every observable
Unregister(st, b, srcs) ==
    IF srcs = {} THEN st
    ELSE LET o == CHOOSE x \in srcs : TRUE
         IN  Unregister([st EXCEPT !.listeners[o] = SetDelete(@, BindingCb(b))],
                        b, srcs \ {o})

\* ---------------------------------------------------------------- actions

\* What a call leaves behind, thrown or returned: the heap, and the record of
\* the call (src: the object or callback handed in, srcs: the observables
\* handed to Binding.new, ret: what the call returned, old and was: what the
\* target held and the source it was bound to when the call began)
Return(st, name, obj, arg, src, srcs, ret) ==
    /\ value' = st.value
    /\ bvalue' = st.bvalue
    /\ listeners' = st.listeners
    /\ observing' = st.observing
    /\ log' = st.log
    /\ op' = [name |-> name, obj |-> obj, arg |-> arg, src |-> src,
              old |-> Get(Cur, obj), ok |-> ~st.err, srcs |-> srcs,
              ret |-> IF st.err THEN Undefined ELSE ret,
              was |-> IF obj \in Props THEN observing[obj] ELSE NoObj,
              list |-> <<>>, overflow |-> st.overflow]

\* a call that returns nothing
Commit(st, name, obj, arg, src) == Return(st, name, obj, arg, src, {}, Undefined)

\* p.set(v)
Set(p, v) ==
    /\ kind[p] # "none"
    /\ Commit(instance_set(Cur, p, v), "set", p, v, NoObj)
    /\ UNCHANGED <<kind, readOnly, compute, observables>>

\* NumberProperty's instance.add
add(st, p, summand) ==
    IF ~isNumber(summand) THEN Throw(st)
    ELSE instance_set(st, p, Num(ToNumber(Get(st, p)) + ToNumber(summand)))

\* subtract with the operands of - exchanged
subtract_swapped(st, p, subtrahend) ==
    IF ~isNumber(subtrahend) THEN Throw(st)
    ELSE instance_set(st, p, Num(ToNumber(subtrahend) - ToNumber(Get(st, p))))

\* NumberProperty's instance.subtract
subtract(st, p, subtrahend) ==
    IF ~isNumber(subtrahend) THEN Throw(st)
    ELSE instance_set(st, p, Num(ToNumber(Get(st, p)) - ToNumber(subtrahend)))

\* p.add(x); the result stays in NumRange
Add(p, x) ==
    /\ kind[p] = "NumberProperty"
    /\ isNumber(x) => ToNumber(value[p]) + ToNumber(x) \in NumRange
    /\ Commit(add(Cur, p, x), "add", p, x, NoObj)
    /\ UNCHANGED <<kind, readOnly, compute, observables>>

\* p.subtract(x); the result stays in NumRange
Subtract(p, x) ==
    /\ kind[p] = "NumberProperty"
    /\ isNumber(x) => ToNumber(value[p]) - ToNumber(x) \in NumRange
    /\ Commit(subtract(Cur, p, x), "subtract", p, x, NoObj)
    /\ UNCHANGED <<kind, readOnly, compute, observables>>

\* p.bind(src)
Bind(p, src) ==
    /\ kind[p] # "none"
    /\ Commit(bind(Cur, p, src), "bind", p, Undefined, src)
    /\ UNCHANGED <<kind, readOnly, compute, observables>>

\* p.unbind()
Unbind(p) ==
    /\ kind[p] # "none"
    /\ Commit(unbind(Cur, p), "unbind", p, Undefined, observing[p])
    /\ UNCHANGED <<kind, readOnly, compute, observables>>

\* Binding.new(c, ...srcs), the instance being b
NewBinding(b, c, srcs) ==
    /\ compute[b].fn = "none"
    /\ LET st1 == Binding_new(Cur, b, c, srcs)
           st2 == Register(st1, b, srcs)
       IN  /\ Return(st2, "new", b, Undefined, NoObj, srcs, Undefined)
           \* a constructor that throws returns no instance
           /\ compute' = IF st1.err THEN compute ELSE [compute EXCEPT ![b] = c]
           /\ observables' = IF st1.err THEN observables
                             ELSE [observables EXCEPT ![b] = srcs]
    /\ UNCHANGED <<kind, readOnly>>

\* b.unbind() of a Binding
BindingUnbind(b) ==
    /\ compute[b].fn # "none"
    /\ Commit(Unregister(Cur, b, observables[b]), "bunbind", b, Undefined, NoObj)
    /\ observables' = [observables EXCEPT ![b] = {}]
    /\ UNCHANGED <<kind, readOnly, compute>>

\* o.addListener(L) of a plain listener
AddListener(o, l) ==
    /\ hasInstance(o)
    /\ Commit([Cur EXCEPT !.listeners[o] = SetAdd(@, PlainCb(l))],
              "addListener", o, Undefined, l)
    /\ UNCHANGED <<kind, readOnly, compute, observables>>

\* a get that recomputes a Binding on every read
instance_get_recomputes(st, o) == IF o \in Bindings THEN listener(st, o) ELSE st

\* what instance.get leaves behind: the accessors return a local and assign
\* nothing
instance_get(st, o) == st

\* o.get()
GetCall(o) ==
    /\ hasInstance(o)
    /\ LET st1 == instance_get(Cur, o)
       IN  Return(st1, "get", o, Undefined, NoObj, {}, Get(st1, o))
    /\ UNCHANGED <<kind, readOnly, compute, observables>>

\* removeListener that leaves the callback registered
removeListener_keeps(st, o, callback) == st

\* instance.removeListener: listeners.delete(callback)
removeListener(st, o, callback) ==
    [st EXCEPT !.listeners[o] = SetDelete(@, callback)]

\* o.removeListener(L) of a plain listener; Set.prototype.delete returns
\* whether the element was in the Set
RemoveListener(o, l) ==
    /\ hasInstance(o)
    /\ Return(removeListener(Cur, o, PlainCb(l)), "removeListener", o, Undefined, l,
              {}, Bool(Has(listeners[o], PlainCb(l))))
    /\ UNCHANGED <<kind, readOnly, compute, observables>>

\* NumberProperty's instance.increment
increment(st, p) == add(st, p, Num(1))

\* NumberProperty's instance.decrement
decrement(st, p) == subtract(st, p, Num(1))

\* p.increment(); the result stays in NumRange
Increment(p) ==
    /\ kind[p] = "NumberProperty"
    /\ ToNumber(value[p]) + 1 \in NumRange
    /\ Commit(increment(Cur, p), "increment", p, Undefined, NoObj)
    /\ UNCHANGED <<kind, readOnly, compute, observables>>

\* p.decrement(); the result stays in NumRange
Decrement(p) ==
    /\ kind[p] = "NumberProperty"
    /\ ToNumber(value[p]) - 1 \in NumRange
    /\ Commit(decrement(Cur, p), "decrement", p, Undefined, NoObj)
    /\ UNCHANGED <<kind, readOnly, compute, observables>>

\* NumberProperty's instance.multiply
multiply(st, p, factor) ==
    IF ~isNumber(factor) THEN Throw(st)
    ELSE instance_set(st, p, Num(ToNumber(Get(st, p)) * ToNumber(factor)))

\* divide that multiplies
divide_asMultiply(st, p, divisor) == multiply(st, p, divisor)

\* NumberProperty's instance.divide
divide(st, p, divisor) ==
    IF ~isNumber(divisor) THEN Throw(st)
    ELSE IF divisor = Num(0) THEN Throw(st)
    ELSE instance_set(st, p, Num(ToNumber(Get(st, p)) \div ToNumber(divisor)))

\* p.multiply(x); the result stays in NumRange
Multiply(p, x) ==
    /\ kind[p] = "NumberProperty"
    /\ isNumber(x) => ToNumber(value[p]) * ToNumber(x) \in NumRange
    /\ Commit(multiply(Cur, p, x), "multiply", p, x, NoObj)
    /\ UNCHANGED <<kind, readOnly, compute, observables>>

\* p.divide(x); the quotient is a whole number
Divide(p, x) ==
    /\ kind[p] = "NumberProperty"
    /\ (isNumber(x) /\ x # Num(0)) => ToNumber(value[p]) % ToNumber(x) = 0
    /\ Commit(divide(Cur, p, x), "divide", p, x, NoObj)
    /\ UNCHANGED <<kind, readOnly, compute, observables>>

\* ---------------------------------------------------------------- classes

\* the module each module extends
SuperOf(c) ==
    CASE c = "NumberProperty" -> "ReadOnlyPropertyWrapper"
      [] c = "ReadOnlyPropertyWrapper" -> "Property"
      [] c = "Property" -> "ReadOnlyProperty"
      [] c = "Binding" -> "ReadOnlyProperty"
      [] c = "ReadOnlyProperty" -> "Structure"
      [] OTHER -> "none"

RECURSIVE Ancestors(_)
\* the modules whose constructor runs, and registers the instance in its
\* privateMap, when c.new is called
Ancestors(c) == IF c = "none" THEN {} ELSE {c} \cup Ancestors(SuperOf(c))

\* a view constructed by the constructor of its owner's module
ClassOf_viewIsOwner(o) ==
    IF o \in Props THEN kind[o]
    ELSE IF o \in Views
         THEN IF readOnly[OwnerOf(o)] # NoView THEN kind[OwnerOf(o)] ELSE "none"
    ELSE IF compute[o].fn # "none" THEN "Binding" ELSE "none"

\* the module whose public constructor made o; a view is made by
\* ReadOnlyProperty.new
ClassOf(o) ==
    IF o \in Props THEN kind[o]
    ELSE IF o \in Views
         THEN IF readOnly[OwnerOf(o)] # NoView THEN "ReadOnlyProperty" ELSE "none"
    ELSE IF compute[o].fn # "none" THEN "Binding" ELSE "none"

\* c.hasInstance(o): privateMap.has(instance)
Structure_hasInstance(c, o) == c \in Ancestors(ClassOf(o))

\* the members the constructor of module c assigns to the instance
OwnMembers(c) ==
    CASE c = "ReadOnlyProperty" -> {"get", "addListener", "removeListener", "toString"}
      [] c = "Property" -> {"set", "isBound", "unbind", "bind"}
      [] c = "ReadOnlyPropertyWrapper" -> {"readOnly", "set"}
      [] c = "NumberProperty" -> {"set", "add", "subtract", "multiply", "divide",
                                  "increment", "decrement"}
      [] c = "Binding" -> {"get", "unbind"}
      [] OTHER -> {"tostring"}

\* the members of the frozen object o
Members(o) == UNION {OwnMembers(c) : c \in Ancestors(ClassOf(o))}

\* v.set(x) on a view: a call of a member the object does not have throws
ViewSet(v, x) ==
    /\ hasInstance(v) /\ "set" \notin Members(v)
    /\ Commit(Throw(Cur), "set", v, x, NoObj)
    /\ UNCHANGED <<kind, readOnly, compute, observables>>

\* ------------------------------------------------------------------- Spec

NoCompute == [fn |-> "none", reads |-> {}]
ComputeFns == {"sum", "atLeast"}
Start == [name |-> "init", obj |-> "p1", arg |-> Undefined, src |-> NoObj,
          old |-> Undefined, ok |-> TRUE, srcs |-> {}, ret |-> Undefined,
          was |-> NoObj, list |-> <<>>, overflow |-> FALSE]

\* a value that is an object: the n-th view the wrapper constructed
Object(n) == <<"object", n>>

\* instance.readOnly that constructs a view on every call
instance_readOnly_fresh(r) == r + 1

\* instance.readOnly: the wrapper's readOnly after the call, r before it;
\* ReadOnlyProperty.new is called only while it is null
instance_readOnly(r) == IF r = NoView THEN r + 1 ELSE r

\* p.readOnly()
ReadOnly(p) ==
    /\ kind[p] \in {"ReadOnlyPropertyWrapper", "NumberProperty"}
    /\ readOnly' = [readOnly EXCEPT ![p] = instance_readOnly(@)]
    /\ Return(Cur, "readOnly", p, Undefined, NoObj, {}, Object(readOnly'[p]))
    /\ UNCHANGED <<kind, compute, observables>>

\* The three kinds of mutable property, observed as in the Tester:
\* p1 = Property.new(), p2 = ReadOnlyPropertyWrapper.new(), p3 = NumberProperty.new(),
\* then p1.addListener(L1), p1.addListener(L2), p2.addListener(L1), p3.addListener(L2)
Init ==
    /\ kind = [p \in Props |-> CASE p = "p1" -> "Property"
                                 [] p = "p2" -> "ReadOnlyPropertyWrapper"
                                 [] p = "p3" -> "NumberProperty"]
    /\ value = [p \in Props |-> IF p = "p3" THEN Num(0) ELSE Null]
    /\ observing = [p \in Props |-> NoObj]
    /\ readOnly = [p \in Props |-> NoView]
    /\ listeners = [o \in Observables |->
                      CASE o = "p1" -> <<PlainCb("L1"), PlainCb("L2")>>
                        [] o = "p2" -> <<PlainCb("L1")>>
                        [] o = "p3" -> <<PlainCb("L2")>>
                        [] OTHER -> <<>>]
    /\ compute = [b \in Bindings |-> NoCompute]
    /\ bvalue = [b \in Bindings |-> Undefined]
    /\ observables = [b \in Bindings |-> {}]
    /\ log = <<>>
    /\ op = Start

Next ==
    \/ \E p \in Props, v \in Numbers \cup {Null, Undefined} : Set(p, v)
    \/ \E p \in Props, x \in {Num(1), Null} : Add(p, x)
    \/ \E p \in Props, x \in {Num(1), Null} : Subtract(p, x)
    \/ \E p \in Props, src \in Props \cup {Foreign} : Bind(p, src)
    \/ \E p \in Props : Unbind(p)
    \/ \E p \in Props : ReadOnly(p)

Spec == Init /\ [][Next]_vars

\* ----------------------------------------------------------- SpecBinding

\* Two NumberProperty sources, a Binding made over them, plain listeners on
\* the Binding, and a Property that may be bound to a source or to the Binding:
\* p1 = NumberProperty.new(), p2 = NumberProperty.new(), p3 = Property.new()
InitBinding ==
    /\ kind = [p \in Props |-> IF p = "p3" THEN "Property" ELSE "NumberProperty"]
    /\ value = [p \in Props |-> IF p = "p3" THEN Null ELSE Num(0)]
    /\ observing = [p \in Props |-> NoObj]
    /\ readOnly = [p \in Props |-> NoView]
    /\ listeners = [o \in Observables |-> <<>>]
    /\ compute = [b \in Bindings |-> NoCompute]
    /\ bvalue = [b \in Bindings |-> Undefined]
    /\ observables = [b \in Bindings |-> {}]
    /\ log = <<>>
    /\ op = Start

Sources == {"p1", "p2"}

NextBinding ==
    \/ \E p \in Sources, v \in Numbers \cup {Null} : Set(p, v)
    \/ \E p \in Sources : Add(p, Num(1))
    \/ \E c \in [fn : ComputeFns, reads : SUBSET Sources \ {{}}],
          srcs \in SUBSET Sources \ {{}} :
          srcs \subseteq c.reads /\ NewBinding("B1", c, srcs)
    \/ BindingUnbind("B1")
    \/ \E l \in Plain : AddListener("B1", l)
    \/ \E src \in {"p1", "B1"} : hasInstance(src) /\ Bind("p3", src)
    \/ Unbind("p3")

SpecBinding == InitBinding /\ [][NextBinding]_vars

\* -------------------------------------------------------------- SpecView

\* A wrapper with its read-only view, a source the wrapper may be bound to,
\* and a Property that may be bound to the view or to that source:
\* p1 = Property.new(), p2 = ReadOnlyPropertyWrapper.new(), p3 = NumberProperty.new()
InitView ==
    /\ kind = [p \in Props |-> CASE p = "p1" -> "Property"
                                 [] p = "p2" -> "ReadOnlyPropertyWrapper"
                                 [] p = "p3" -> "NumberProperty"]
    /\ value = [p \in Props |-> IF p = "p3" THEN Num(0) ELSE Null]
    /\ observing = [p \in Props |-> NoObj]
    /\ readOnly = [p \in Props |-> NoView]
    /\ listeners = [o \in Observables |-> <<>>]
    /\ compute = [b \in Bindings |-> NoCompute]
    /\ bvalue = [b \in Bindings |-> Undefined]
    /\ observables = [b \in Bindings |-> {}]
    /\ log = <<>>
    /\ op = Start

NextView ==
    \/ \E p \in {"p2", "p3"}, v \in Numbers \cup {Null} : Set(p, v)
    \/ ReadOnly("p2")
    \/ Bind("p2", "p3")
    \/ Unbind("p2")
    \/ Bind("p1", "v2")
    \/ Bind("p1", "p3")
    \/ Unbind("p1")
    \/ \E l \in Plain : AddListener("v2", l)

SpecView == InitView /\ [][NextView]_vars

\* ------------------------------------------------------------- SpecChain

\* A Binding over a Binding: B1 is made over p1 (and p2), B2 over B1 (and p2);
\* Binding.new may also be handed no observable at all.  Plain listeners are
\* added to B2, to B1 and, before or after B1 is made, to p1.
\* p1 = NumberProperty.new(), p2 = NumberProperty.new(), p3 = Property.new()
InitChain == InitBinding

NextChain ==
    \/ \E p \in Sources, v \in Numbers \cup {Null} : Set(p, v)
    \/ \E p \in Sources : Add(p, Num(1))
    \/ \E c \in [fn : ComputeFns, reads : {{"p1"}, {"p1", "p2"}}] :
          NewBinding("B1", c, c.reads)
    \/ \E c \in [fn : ComputeFns, reads : {{"B1"}, {"B1", "p2"}}] :
          hasInstance("B1") /\ NewBinding("B2", c, c.reads)
    \/ \E b \in Bindings, c \in [fn : ComputeFns, reads : {{"p1"}}] :
          NewBinding(b, c, {})
    \/ \E l \in Plain : AddListener("B2", l)
    \/ AddListener("p1", "L2")
    \/ AddListener("B1", "L1")

SpecChain == InitChain /\ [][NextChain]_vars

\* ------------------------------------------------------------ SpecNumber

\* A NumberProperty with its read-only view, as in the Tester, plain listeners
\* that come and go on both, and a Property the NumberProperty may be bound to:
\* p1 = Property.new(), p3 = NumberProperty.new()
InitNumber ==
    /\ kind = [p \in Props |-> CASE p = "p1" -> "Property"
                                 [] p = "p2" -> "none"
                                 [] p = "p3" -> "NumberProperty"]
    /\ value = [p \in Props |-> IF p = "p3" THEN Num(0) ELSE Null]
    /\ observing = [p \in Props |-> NoObj]
    /\ readOnly = [p \in Props |-> NoView]
    /\ listeners = [o \in Observables |-> <<>>]
    /\ compute = [b \in Bindings |-> NoCompute]
    /\ bvalue = [b \in Bindings |-> Undefined]
    /\ observables = [b \in Bindings |-> {}]
    /\ log = <<>>
    /\ op = Start

NextNumber ==
    \/ \E v \in Numbers \cup {Null, Undefined} : Set("p3", v)
    \/ \E v \in Numbers \cup {Null} : Set("p1", v)
    \/ \E x \in Numbers \cup {Null, Undefined} : Add("p3", x)
    \/ \E x \in Numbers \cup {Null, Undefined} : Subtract("p3", x)
    \/ \E x \in Numbers \cup {Null, Undefined} : Multiply("p3", x)
    \/ \E x \in Numbers \cup {Null, Undefined} : Divide("p3", x)
    \/ Increment("p3")
    \/ Decrement("p3")
    \/ ReadOnly("p3")
    \/ Bind("p3", "p1")
    \/ \E x \in {Foreign, NoObj} : Bind("p3", x)
    \/ Unbind("p3")
    \/ \E o \in {"p3", "v3"}, l \in Plain : AddListener(o, l)
    \/ \E o \in {"p3", "v3"}, l \in Plain : RemoveListener(o, l)
    \/ \E x \in {Num(1), Null} : ViewSet("v3", x)

SpecNumber == InitNumber /\ [][NextNumber]_vars

\* --------------------------------------------------------------- SpecGet

\* Reads of every kind of property: a Property, a wrapper with its view, a
\* NumberProperty, and a Binding registered on p3 whose compute function may
\* also read p2, so that its cached value can be out of date.
\* p1 = Property.new(), p2 = ReadOnlyPropertyWrapper.new(), p3 = NumberProperty.new()
InitGet == InitView

NextGet ==
    \/ \E p \in {"p2", "p3"}, v \in Numbers : Set(p, v)
    \/ ReadOnly("p2")
    \/ \E c \in [fn : ComputeFns, reads : {{"p3"}, {"p2", "p3"}}] :
          NewBinding("B1", c, {"p3"})
    \/ BindingUnbind("B1")
    \/ \E src \in {"p3", "v2", "B1"} : hasInstance(src) /\ Bind("p1", src)
    \/ \E o \in {"p1", "v2", "B1"} : AddListener(o, "L1")
    \/ \E o \in Observables : GetCall(o)

SpecGet == InitGet /\ [][NextGet]_vars

\* ------------------------------------------------------------- SpecOrder

\* A wrapper that is set, with plain listeners of its own, a Property bound
\* to it that has listeners too, and a view with listeners:
\* p1 = Property.new(), p2 = ReadOnlyPropertyWrapper.new(), p3 = NumberProperty.new()
InitOrder == InitView

NextOrder ==
    \/ \E v \in Numbers \cup {Null} : Set("p2", v)
    \/ ReadOnly("p2")
    \/ Bind("p1", "p2")
    \/ Unbind("p1")
    \/ \E o \in {"p1", "p2", "v2"}, l \in Plain : AddListener(o, l)

SpecOrder == InitOrder /\ [][NextOrder]_vars

\* ------------------------------------------------------ the source list

\* the longest list of sources handed to Binding.new
MaxSources == 2

\* the elements of a list
Range(list) == {list[i] : i \in 1..Len(list)}

RECURSIVE SetOf(_)
\* new Set(observables): the elements of the list in the order of their first
\* occurrence, each of them once
SetOf(list) ==
    IF list = <<>> THEN <<>>
    ELSE SetAdd(SetOf(SubSeq(list, 1, Len(list) - 1)), list[Len(list)])

RECURSIVE RegisterEach(_, _, _)
\* the loop of Binding.new over the Set of observables, in its order: the
\* listener is added to one observable after the other, and the first one that
\* is no property of the library ends the loop with a failed assertion
RegisterEach(st, b, obs) ==
    IF st.err \/ obs = <<>> THEN st
    ELSE LET o == Head(obs)
         IN  IF o = NoObj \/ ~hasInstance(o) THEN Throw(st)
             ELSE RegisterEach([st EXCEPT !.listeners[o] = SetAdd(@, BindingCb(b))],
                               b, Tail(obs))

\* Binding.new(c, ...list), the instance being b: the closure of the Binding
\* (its compute function, its value, its Set of observables) exists from the
\* first assertions on, also when the loop of registration fails later
NewBindingOf(b, c, list) ==
    /\ compute[b].fn = "none"
    /\ LET obs == SetOf(list)
           st1 == Binding_new(Cur, b, c, Range(obs))
           st2 == RegisterEach(st1, b, obs)
       IN  /\ value' = st2.value
           /\ bvalue' = st2.bvalue
           /\ listeners' = st2.listeners
           /\ observing' = st2.observing
           /\ log' = st2.log
           /\ op' = [name |-> "new", obj |-> b, arg |-> Undefined, src |-> NoObj,
                     old |-> Get(Cur, b), ok |-> ~st2.err, srcs |-> Range(obs),
                     ret |-> Undefined, was |-> NoObj, list |-> list,
                     overflow |-> st2.overflow]
           /\ compute' = IF st1.err THEN compute ELSE [compute EXCEPT ![b] = c]
           /\ observables' = IF st1.err THEN observables
                             ELSE [observables EXCEPT ![b] = Range(obs)]
    /\ UNCHANGED <<kind, readOnly>>

\* a Binding whose construction returned it to the caller
Constructed(b) == compute[b].fn # "none" /\ observables[b] \subseteq Observables

\* compute functions that may return any value, undefined included
AnyValueFns == ComputeFns \cup {"ifPositive"}

\* the lists of sources: properties, named once or several times, and objects
\* that are no property
SourceLists ==
    UNION {[1..n -> Sources \cup {Foreign}] : n \in 1..MaxSources}

\* Two NumberProperties and a Binding constructed over a list of sources:
\* p1 = NumberProperty.new(0), p2 = NumberProperty.new(0)
InitSources == InitBinding

NextSources ==
    \/ \E p \in Sources, v \in Numbers : Set(p, v)
    \/ \E fn \in AnyValueFns, list \in SourceLists :
          NewBindingOf("B1", [fn |-> fn, reads |-> Range(list) \cap Sources], list)
    \/ \E l \in Plain : Constructed("B1") /\ AddListener("B1", l)

SpecSources == InitSources /\ [][NextSources]_vars

\* ------------------------------------------------------------- the cycle

\* A Property bound to a Binding that reads it:
\* p1 = NumberProperty.new(0), p2 = NumberProperty.new(0),
\* B1 = Binding.new(c, p1) or Binding.new(c, p1, p2), p1.bind(B1).
\* The RangeError of an exhausted stack is caught by nobody and ends the run
\* (Running).
InitCycle == InitBinding

Running == ~op.overflow

NextCycle ==
    \/ \E p \in Sources, v \in Numbers : Running /\ Set(p, v)
    \/ Running /\ Add("p2", Num(1))
    \/ \E fn \in ComputeFns, srcs \in {{"p1"}, {"p1", "p2"}} :
          Running /\ NewBinding("B1", [fn |-> fn, reads |-> srcs], srcs)
    \/ Running /\ hasInstance("B1") /\ Bind("p1", "B1")
    \/ Running /\ Unbind("p1")
    \/ \E o \in {"p1", "B1"} : Running /\ hasInstance(o) /\ AddListener(o, "L1")

SpecCycle == InitCycle /\ [][NextCycle]_vars

\* ----------------------------------------------------------- reentrancy

\* o.addListener(callback) with the listener that resets the property
AddReentrant(o) ==
    /\ hasInstance(o)
    /\ Commit([Cur EXCEPT !.listeners[o] = SetAdd(@, ReentrantCb)],
              "addListener", o, Undefined, ReentrantCb[2])
    /\ UNCHANGED <<kind, readOnly, compute, observables>>

\* A source with a listener that sets the source while it is notified, a plain
\* listener, and a Property bound to the source:
\* p1 = Property.new(), p2 = ReadOnlyPropertyWrapper.new(), p3 = NumberProperty.new()
InitReentrant == InitView

NextReentrant ==
    \/ \E v \in Numbers : Set("p3", v)
    \/ Add("p3", Num(1))
    \/ AddReentrant("p3")
    \/ \E l \in Plain : AddListener("p3", l)
    \/ \E l \in Plain : AddListener("p1", l)
    \/ Bind("p1", "p3")
    \/ Unbind("p1")

SpecReentrant == InitReentrant /\ [][NextReentrant]_vars

\* ----------------------------------------------------------- two paths

\* A Binding over a property and over a second property bound to the first,
\* made before or after the bind:
\* p1 = NumberProperty.new(0), p2 = NumberProperty.new(0),
\* B1 = Binding.new(c, p1, p2), p2.bind(p1)
InitDiamond == InitBinding

NextDiamond ==
    \/ \E p \in Sources, v \in Numbers : Set(p, v)
    \/ Add("p1", Num(1))
    \/ \E fn \in ComputeFns :
          NewBinding("B1", [fn |-> fn, reads |-> Sources], Sources)
    \/ Bind("p2", "p1")
    \/ Unbind("p2")
    \/ \E l \in Plain : hasInstance("B1") /\ AddListener("B1", l)

SpecDiamond == InitDiamond /\ [][NextDiamond]_vars

\* ----------------------------------------------------------------- claims

\* invocations, in log lg, of callback cb by property o
Calls(lg, cb, o) == {i \in 1..Len(lg) : lg[i][1] = cb /\ lg[i][2] = o}
\* some listener of o was invoked in lg
Notified(lg, o) == \E i \in 1..Len(lg) : lg[i][2] = o
\* v is a value p.set accepts
Permitted(p, v) == v # Undefined /\ (kind[p] = "NumberProperty" => isNumber(v))
\* the calls that may change the value of their target
Mutators == {"set", "add", "subtract"}

\* C1: set(v) on an unbound property of any of the three kinds, with a
\* permitted v, succeeds, and get() right after it returns v.
C1_GetAfterSet ==
    (op.name = "set" /\ observing[op.obj] = NoObj /\ Permitted(op.obj, op.arg))
        => (op.ok /\ Get(Cur, op.obj) = op.arg)

C1_Witness ==
    /\ op.name = "set" /\ op.ok /\ op.old # op.arg
    /\ kind[op.obj] = "ReadOnlyPropertyWrapper" /\ readOnly[op.obj] # NoView
    /\ value[op.obj] = op.arg

\* C2: a successful set(v) with v different from the value held before
\* invokes every listener registered on the property exactly once, with
\* (the property, the value before, v).
C2_EachListenerOnce ==
    (op.name = "set" /\ op.ok /\ op.old # op.arg)
        => \A i \in 1..Len(listeners[op.obj]) :
              LET cb == listeners[op.obj][i]
                  at == Calls(log, cb, op.obj)
              IN  /\ Cardinality(at) = 1
                  /\ \A j \in at : log[j] = <<cb, op.obj, op.old, op.arg>>

C2_Witness ==
    /\ op.name = "set" /\ op.ok /\ op.old # op.arg
    /\ Len(listeners[op.obj]) >= 3
    /\ Len(log) >= 4

\* C3: set(v) on an unbound property whose value is v invokes no listener
\* of the property and leaves the value as it was.
C3_EqualSetIsSilent ==
    (op.name = "set" /\ op.ok /\ op.old = op.arg)
        => (~Notified(log, op.obj) /\ value[op.obj] = op.old)

C3_Witness ==
    /\ op.name = "set" /\ op.ok /\ op.old = op.arg
    /\ Len(listeners[op.obj]) >= 2

\* C4: while a property is bound every set fails, whatever the argument,
\* and the failed call changes no value, no bound source and no listener
\* set and invokes no listener.
C4_BoundSetFails ==
    [][(op'.name = "set" /\ observing[op'.obj] # NoObj)
          => /\ ~op'.ok
             /\ value' = value /\ bvalue' = bvalue
             /\ observing' = observing /\ listeners' = listeners
             /\ log' = <<>>]_vars

C4_Witness ==
    /\ op.name = "set" /\ ~op.ok /\ observing[op.obj] # NoObj
    /\ op.arg = value[op.obj]
    /\ listeners[op.obj] # <<>>

\* C5: when p.bind(s) returns, p is bound and p.get() equals s.get().
C5_BindSynchronizes ==
    (op.name = "bind" /\ op.ok)
        => (observing[op.obj] # NoObj /\ Get(Cur, op.obj) = Get(Cur, op.src))

\* C6: a property bound to a mutable property holds that property's value
\* whenever no call is in progress.
C6_BoundMirrorsSource ==
    \A p \in Props : observing[p] \in Props => value[p] = value[observing[p]]

C6_Witness ==
    /\ op.name \in Mutators /\ op.ok /\ op.old # value[op.obj]
    /\ \E p \in Props \ {op.obj} :
          /\ observing[p] = op.obj
          /\ value[p] = value[op.obj]
          /\ Calls(log, FwdCb(p), op.obj) # {}

\* C7: unbind of a bound property leaves it unbound with the value it had
\* and its forwarding listener registered nowhere; an unbound property
\* accepts set; and no call on another object changes an unbound property's
\* value or invokes its listeners.
C7_UnbindDetaches ==
    [][/\ (op'.name = "unbind" /\ observing[op'.obj] # NoObj)
            => /\ op'.ok
               /\ observing'[op'.obj] = NoObj
               /\ value' = value
               /\ \A o \in Observables : ~Has(listeners'[o], FwdCb(op'.obj))
       /\ (op'.name = "set" /\ observing[op'.obj] = NoObj
              /\ Permitted(op'.obj, op'.arg))
            => (op'.ok /\ value'[op'.obj] = op'.arg)
       /\ \A p \in Props :
             (observing[p] = NoObj /\ op'.obj # p)
                => (value'[p] = value[p] /\ ~Notified(log', p))]_vars

C7_Witness ==
    /\ op.name = "unbind" /\ op.ok
    /\ op.src \in Props \ {op.obj}
    /\ observing[op.obj] = NoObj
    /\ value[op.obj] = value[op.src]
    /\ value[op.obj] # Null

\* C8: unbind of a property that is not bound changes nothing and invokes
\* no listener.
C8_UnbindUnboundIsNoOp ==
    [][(op'.name = "unbind" /\ observing[op'.obj] = NoObj)
          => /\ op'.ok
             /\ value' = value /\ bvalue' = bvalue
             /\ observing' = observing /\ listeners' = listeners
             /\ log' = <<>>]_vars

C8_Witness ==
    /\ op.name = "unbind" /\ op.ok /\ op.src = NoObj
    /\ \E p \in Props : observing[p] = op.obj

\* the Bindings constructed and not unbound whose compute function reads
\* only their sources
Live == {b \in Bindings : /\ compute[b].fn # "none"
                          /\ observables[b] # {}
                          /\ compute[b].reads \subseteq observables[b]}

\* C9: a Binding that has not been unbound and reads only its sources holds
\* its compute function's value over the sources' current values whenever
\* no call is in progress.
C9_BindingIsCurrent ==
    \A b \in Live : bvalue[b] = Compute(Cur, compute[b])

C9_Witness ==
    /\ op.name \in Mutators /\ op.ok /\ op.old # value[op.obj]
    /\ "B1" \in Live /\ compute["B1"].reads = Sources
    /\ Calls(log, BindingCb("B1"), op.obj) # {}
    /\ Notified(log, "B1")
    /\ bvalue["B1"] = Compute(Cur, compute["B1"])

\* invocations of Binding b's listener in log lg
Recomputes(lg, b) == {i \in 1..Len(lg) : lg[i][1] = BindingCb(b)}

\* C10: in a call during which a source notifies Binding b once, b holds the
\* recomputed value afterwards; if that differs from the value cached before,
\* every listener of b is invoked exactly once, with (b, the value cached
\* before, the recomputed value); if it does not, no listener of b is invoked.
C10_NotifiesIffChanged ==
    [][\A b \in Bindings :
          Cardinality(Recomputes(log', b)) = 1
             => /\ bvalue'[b] = Compute(Cur, compute[b])'
                /\ IF bvalue'[b] # bvalue[b]
                   THEN \A i \in 1..Len(listeners[b]) :
                           LET at == Calls(log', listeners[b][i], b)
                           IN  /\ Cardinality(at) = 1
                               /\ \A j \in at :
                                     log'[j] = <<listeners[b][i], b, bvalue[b], bvalue'[b]>>
                   ELSE ~Notified(log', b)]_vars

C10_Witness ==
    /\ op.name \in Mutators /\ op.ok
    /\ Cardinality(Recomputes(log, "B1")) = 1
    /\ Len(listeners["B1"]) >= 2
    /\ Cardinality({i \in 1..Len(log) : log[i][2] = "B1"}) = Len(listeners["B1"])
    /\ compute["B1"].fn = "atLeast"

\* the chain is in place: B2 has B1 among its sources, B1 has a property
Chained ==
    /\ compute["B1"].fn # "none" /\ observables["B1"] # {}
    /\ compute["B2"].fn # "none" /\ "B1" \in observables["B2"]

\* C11: with B2 made over B1 and B1 over a property, once a set / add on a
\* source has returned, B1 and B2 both hold their compute function's value
\* over the current values of what they read; no recomputation is left over.
C11_ChainIsCurrent ==
    (Chained /\ op.name \in Mutators /\ op.obj \in Sources)
        => /\ bvalue["B1"] = Compute(Cur, compute["B1"])
           /\ bvalue["B2"] = Compute(Cur, compute["B2"])

C11_Witness ==
    /\ Chained /\ op.name = "set" /\ op.obj = "p1" /\ op.ok
    /\ op.old # value["p1"]
    /\ compute["B2"].reads = {"B1"}
    /\ Calls(log, BindingCb("B2"), "B1") # {}
    /\ Calls(log, PlainCb("L1"), "B2") # {}
    /\ bvalue["B2"] = Compute(Cur, compute["B2"])

\* Binding b was made and has been unbound
Unbound(b) == compute[b].fn # "none" /\ observables[b] = {}

\* C12: unbind() of a Binding leaves its listener registered on no
\* observable and keeps the cached value; from then on no call changes what
\* get() returns, invokes a listener of the Binding or registers its listener
\* again, and a further unbind() succeeds and changes nothing.
C12_UnboundBindingIsInert ==
    [][\A b \in Bindings :
          /\ (op'.name = "bunbind" /\ op'.obj = b)
                => /\ op'.ok
                   /\ \A o \in Observables : ~Has(listeners'[o], BindingCb(b))
                   /\ bvalue'[b] = bvalue[b]
          /\ Unbound(b)
                => /\ bvalue'[b] = bvalue[b]
                   /\ ~Notified(log', b)
                   /\ \A o \in Observables : ~Has(listeners'[o], BindingCb(b))
          /\ (Unbound(b) /\ op'.name = "bunbind" /\ op'.obj = b)
                => /\ value' = value /\ bvalue' = bvalue
                   /\ listeners' = listeners /\ observing' = observing
                   /\ observables' = observables /\ log' = <<>>]_vars

C12_Witness ==
    /\ Unbound("B1") /\ listeners["B1"] # <<>>
    /\ op.name \in Mutators /\ op.ok /\ op.old # value[op.obj]
    /\ op.obj \in compute["B1"].reads
    /\ bvalue["B1"] # Compute(Cur, compute["B1"])
    /\ log = <<>>

\* C13: Binding.new handed no observable fails: no Binding comes to exist,
\* nothing is computed or cached, and no listener is registered on anything.
C13_EmptySourcesFail ==
    [][(op'.name = "new" /\ op'.srcs = {})
          => /\ ~op'.ok
             /\ compute' = compute /\ observables' = observables
             /\ bvalue' = bvalue /\ listeners' = listeners
             /\ value' = value /\ observing' = observing
             /\ log' = <<>>]_vars

C13_Witness ==
    /\ op.name = "new" /\ op.srcs = {} /\ ~op.ok
    /\ op.obj = "B2" /\ ~hasInstance("B2") /\ bvalue["B2"] = Undefined
    /\ hasInstance("B1")
    /\ \A o \in Observables : ~Has(listeners[o], BindingCb("B2"))

\* C14: every call of readOnly() returns the view the wrapper constructed
\* first, whatever set, bind and unbind calls came before it; no wrapper
\* ever holds another view.
C14_SameView ==
    /\ \A p \in Props : readOnly[p] \in {NoView, instance_readOnly(NoView)}
    /\ op.name = "readOnly"
          => /\ op.ok
             /\ op.ret = Object(instance_readOnly(NoView))
             /\ op.ret = Object(readOnly[op.obj])

C14_Witness ==
    /\ op.name = "readOnly" /\ op.obj = "p2"
    /\ op.ret = Object(instance_readOnly(NoView))
    /\ listeners["v2"] # <<>>
    /\ observing["p1"] = "v2" /\ observing["p2"] = "p3"
    /\ value["p3"] # Num(0)

\* the members through which a caller changes a property's value or source
MutatingMembers ==
    {"set", "bind", "unbind", "add", "subtract", "multiply", "divide",
     "increment", "decrement"}

\* C15: the view of a NumberProperty has no set and no other mutating
\* member, is an instance for ReadOnlyProperty.hasInstance and none for
\* NumberProperty.hasInstance; a set called on the view fails, invokes no
\* listener and leaves the value the view and its owner return unchanged.
C15_ViewIsReadOnly ==
    /\ \A p \in Props :
          (kind[p] = "NumberProperty" /\ readOnly[p] # NoView)
             => /\ Members(ViewOf(p)) \cap MutatingMembers = {}
                /\ Structure_hasInstance("ReadOnlyProperty", ViewOf(p))
                /\ ~Structure_hasInstance("NumberProperty", ViewOf(p))
    /\ (op.name = "set" /\ op.obj \in Views)
          => /\ ~op.ok /\ log = <<>>
             /\ Get(Cur, op.obj) = op.old
             /\ Get(Cur, OwnerOf(op.obj)) = op.old

C15_Witness ==
    /\ op.name = "set" /\ op.obj = "v3" /\ op.arg = Num(1) /\ ~op.ok
    /\ observing["p3"] = NoObj
    /\ value["p3"] = Num(MaxNum)
    /\ listeners["v3"] # <<>> /\ listeners["p3"] # <<>>
    /\ Structure_hasInstance("NumberProperty", "p3")

\* C16: whenever no call is in progress, a view's get() returns what its
\* owner's get() returns, whether the owner's value was given before or after
\* the view was made, by set, by arithmetic or by forwarding from a source.
C16_ViewMirrorsOwner ==
    \A p \in Props :
        readOnly[p] # NoView => Get(Cur, ViewOf(p)) = Get(Cur, p)

C16_Witness ==
    /\ readOnly["p3"] # NoView /\ observing["p3"] = "p1"
    /\ op.name = "set" /\ op.obj = "p1" /\ op.ok /\ op.arg = Num(MaxNum)
    /\ Calls(log, FwdCb("p3"), "p1") # {}
    /\ Get(Cur, "v3") = Num(MaxNum)

\* C17: in every call that changes the value of an owner whose view exists,
\* each listener registered on the view is invoked exactly once, with
\* (the view, the owner's value before the call, its value after it).
C17_ViewListenersOnChange ==
    [][\A p \in Props :
          (readOnly[p] # NoView /\ value'[p] # value[p])
             => \A i \in 1..Len(listeners[ViewOf(p)]) :
                   LET at == Calls(log', listeners[ViewOf(p)][i], ViewOf(p))
                   IN  /\ Cardinality(at) = 1
                       /\ \A j \in at :
                             log'[j] = <<listeners[ViewOf(p)][i], ViewOf(p),
                                         value[p], value'[p]>>]_vars

\* C18: removeListener(f) succeeds and returns true exactly when f was
\* registered on the property; afterwards f is not registered and the other
\* listeners are registered as before, on this and on every other property;
\* a removeListener(f) that follows a removeListener(f) on the same property
\* returns false, and one that returns false changes nothing.
C18_RemoveListener ==
    [][op'.name = "removeListener"
          => LET o == op'.obj
                 f == PlainCb(op'.src)
             IN  /\ op'.ok
                 /\ op'.ret = Bool(Has(listeners[o], f))
                 /\ ~Has(listeners'[o], f)
                 /\ listeners'[o] = SelectSeq(listeners[o], LAMBDA g : g # f)
                 /\ \A o2 \in Observables \ {o} : listeners'[o2] = listeners[o2]
                 /\ op'.ret = Bool(FALSE) => listeners' = listeners
                 /\ (op.name = "removeListener" /\ op.obj = o /\ op.src = op'.src)
                       => op'.ret = Bool(FALSE)
                 /\ value' = value /\ observing' = observing /\ log' = <<>>]_vars

C18_Witness ==
    /\ op.name = "removeListener" /\ op.obj = "v3" /\ op.src = "L1"
    /\ op.ok /\ op.ret = Bool(TRUE)
    /\ listeners["v3"] = <<PlainCb("L2")>>
    /\ listeners["p3"] = <<PlainCb("L1")>>

\* C19: whenever no call is in progress, get() of a NumberProperty returns
\* a number.
C19_NumberStaysNumeric ==
    \A p \in Props : kind[p] = "NumberProperty" => isNumber(Get(Cur, p))

\* the members of a NumberProperty that take a number
NumberMembers == {"set", "add", "subtract", "multiply", "divide"}

\* C20: set, add, subtract, multiply or divide of a NumberProperty with an
\* argument that is no number (null and undefined included) fails, leaves
\* get() of the property and of its view as before the call, and invokes no
\* listener at all.
C20_NonNumericArgumentFails ==
    (/\ op.name \in NumberMembers /\ op.obj \in Props
     /\ kind[op.obj] = "NumberProperty" /\ ~isNumber(op.arg))
        => /\ ~op.ok
           /\ Get(Cur, op.obj) = op.old
           /\ Get(Cur, ViewOf(op.obj)) = op.old
           /\ log = <<>>

C20_Witness ==
    /\ op.name = "divide" /\ op.obj = "p3" /\ op.arg = Undefined /\ ~op.ok
    /\ observing["p3"] = NoObj /\ readOnly["p3"] # NoView
    /\ listeners["p3"] # <<>> /\ listeners["v3"] # <<>>
    /\ value["p3"] = Num(MaxNum)

\* C21: divide(0) of a NumberProperty fails whatever it holds, leaves get()
\* as before and invokes no listener; divide(d) with a number d other than 0
\* on an unbound NumberProperty succeeds and leaves get() a number q with
\* q * d equal to the value before.
C21_Divide ==
    (op.name = "divide" /\ op.obj \in Props /\ kind[op.obj] = "NumberProperty")
        => /\ op.arg = Num(0)
                 => /\ ~op.ok
                    /\ Get(Cur, op.obj) = op.old
                    /\ log = <<>>
           /\ (isNumber(op.arg) /\ op.arg # Num(0) /\ observing[op.obj] = NoObj)
                 => /\ op.ok
                    /\ isNumber(Get(Cur, op.obj))
                    /\ ToNumber(Get(Cur, op.obj)) * ToNumber(op.arg) = ToNumber(op.old)

C21_Witness ==
    /\ op.name = "divide" /\ op.obj = "p3" /\ op.arg = Num(0) /\ ~op.ok
    /\ observing["p3"] = NoObj
    /\ value["p3"] = Num(MaxNum)
    /\ listeners["p3"] # <<>> /\ listeners["v3"] # <<>>

\* C22: on an unbound NumberProperty holding the number n, add(x),
\* subtract(x) and multiply(x) with a number x succeed and leave get() equal
\* to n + x, n - x and n * x; increment() and decrement() succeed and leave
\* it equal to n + 1 and n - 1.
C22_Arithmetic ==
    (/\ op.obj \in Props /\ kind[op.obj] = "NumberProperty"
     /\ observing[op.obj] = NoObj /\ isNumber(op.old))
        => LET n == ToNumber(op.old)
               x == ToNumber(op.arg)
               now == Get(Cur, op.obj)
           IN  /\ (op.name = "add" /\ isNumber(op.arg))
                     => (op.ok /\ now = Num(n + x))
               /\ (op.name = "subtract" /\ isNumber(op.arg))
                     => (op.ok /\ now = Num(n - x))
               /\ (op.name = "multiply" /\ isNumber(op.arg))
                     => (op.ok /\ now = Num(n * x))
               /\ op.name = "increment" => (op.ok /\ now = Num(n + 1))
               /\ op.name = "decrement" => (op.ok /\ now = Num(n - 1))

C22_Witness ==
    /\ op.name = "subtract" /\ op.obj = "p3" /\ op.ok
    /\ op.old = Num(MaxNum) /\ op.arg = Num(1)
    /\ value["p3"] = Num(MaxNum - 1)
    /\ observing["p3"] = NoObj
    /\ Calls(log, PlainCb("L1"), "p3") # {}

\* the callbacks property o invoked in log lg, in the order of invocation
InvokedBy(lg, o) ==
    LET of == SelectSeq(lg, LAMBDA e : e[2] = o)
    IN  [i \in 1..Len(of) |-> of[i][1]]

\* C23: in a call in which a property invokes listeners, it invokes the
\* callbacks registered on it before the call in the order of their
\* registration: addListener of a callback not yet registered puts it after
\* all registered ones, and addListener of a registered one changes neither
\* its position nor anything else.
C23_RegistrationOrder ==
    [][/\ \A o \in Observables :
             InvokedBy(log', o) # <<>> => InvokedBy(log', o) = listeners[o]
       /\ op'.name = "addListener"
             => LET o == op'.obj
                    f == PlainCb(op'.src)
                IN  /\ listeners'[o] = IF Has(listeners[o], f) THEN listeners[o]
                                       ELSE Append(listeners[o], f)
                    /\ \A o2 \in Observables \ {o} : listeners'[o2] = listeners[o2]]_vars

C23_Witness ==
    /\ op.name = "set" /\ op.obj = "p3" /\ op.ok /\ op.old # value["p3"]
    /\ listeners["p3"] = <<PlainCb("L2"), PlainCb("L1")>>
    /\ InvokedBy(log, "p3") = <<PlainCb("L2"), PlainCb("L1")>>

\* the index in s of its element x
IndexOf(s, x) == CHOOSE i \in 1..Len(s) : s[i] = x

\* C24: when Binding B1 is registered on p1 before the plain listener L2,
\* a set / add on p1 invokes B1's listener, then everything B1's change
\* reaches (the listeners of B1 and, through B2's listener, those of B2),
\* and only then L2.
C24_DepthFirst ==
    (/\ op.name \in Mutators /\ op.obj = "p1" /\ op.ok /\ log # <<>>
     /\ Has(listeners["p1"], BindingCb("B1")) /\ Has(listeners["p1"], PlainCb("L2"))
     /\ IndexOf(listeners["p1"], BindingCb("B1")) < IndexOf(listeners["p1"], PlainCb("L2")))
        => LET first == <<BindingCb("B1"), "p1", op.old, value["p1"]>>
               last == <<PlainCb("L2"), "p1", op.old, value["p1"]>>
           IN  /\ Has(log, first) /\ Has(log, last)
               /\ \A j \in 1..Len(log) :
                     log[j][2] \in Bindings
                        => IndexOf(log, first) < j /\ j < IndexOf(log, last)

C24_Witness ==
    /\ op.name = "set" /\ op.obj = "p1" /\ op.ok
    /\ listeners["p1"] = <<BindingCb("B1"), PlainCb("L2")>>
    /\ Len(log) >= 4
    /\ log[1][1] = BindingCb("B1") /\ log[1][2] = "p1"
    /\ Calls(log, PlainCb("L1"), "B1") # {}
    /\ Calls(log, PlainCb("L1"), "B2") # {}
    /\ log[Len(log)] = <<PlainCb("L2"), "p1", op.old, value["p1"]>>

\* C25: get() of a Property, a wrapper, a view, a NumberProperty or a
\* Binding succeeds, returns what the object held before the call and
\* changes no value, no cached value, no bound source and no listener Set,
\* and invokes no listener; a Binding's get() returns the cached value even
\* when its compute function would return another one.
C25_GetIsPure ==
    [][op'.name = "get"
          => /\ op'.ok
             /\ op'.ret = Get(Cur, op'.obj)
             /\ value' = value /\ bvalue' = bvalue
             /\ observing' = observing /\ listeners' = listeners
             /\ compute' = compute /\ observables' = observables
             /\ readOnly' = readOnly
             /\ log' = <<>>]_vars

C25_Witness ==
    /\ op.name = "get" /\ op.obj = "B1" /\ op.ok
    /\ op.ret = bvalue["B1"]
    /\ bvalue["B1"] # Compute(Cur, compute["B1"])
    /\ observables["B1"] # {}
    /\ listeners["B1"] # <<>>

\* C26: bind(x) with x null or an object that is no ReadOnlyProperty fails
\* and changes no value, no bound source and no listener Set, and invokes no
\* listener; a property that was bound stays bound, and the next successful
\* set of its source still reaches it.
C26_BindRejectsForeign ==
    [][/\ (op'.name = "bind" /\ op'.src \notin Observables)
             => /\ ~op'.ok
                /\ value' = value /\ observing' = observing
                /\ listeners' = listeners /\ bvalue' = bvalue
                /\ log' = <<>>
       /\ (/\ op.name = "bind" /\ op.src \notin Observables
           /\ observing[op.obj] \in Props
           /\ op'.name = "set" /\ op'.obj = observing[op.obj] /\ op'.ok)
             => value'[op.obj] = op'.arg]_vars

C26_Witness ==
    /\ op.name = "bind" /\ op.obj = "p3" /\ op.src = Foreign /\ ~op.ok
    /\ observing["p3"] = "p1"
    /\ value["p1"] = Num(MaxNum) /\ value["p3"] = Num(MaxNum)
    /\ Has(listeners["p1"], FwdCb("p3"))
    /\ listeners["p3"] # <<>>

\* C27: every invocation of a listener by a read-only view hands it an old
\* value different from the new one.
C27_ViewListenerSeesChange ==
    \A i \in 1..Len(log) : log[i][2] \in Views => log[i][3] # log[i][4]

\* C28: whenever no call is in progress, the forwarding listener of a
\* property is registered on the source it is bound to and on nothing else,
\* and a bound property holds what its source's get() returns; a successful
\* bind(S2) of a property bound to another source S1 leaves it bound to S2
\* with no listener left on S1.
C28_ForwarderOnSourceOnly ==
    /\ \A p \in Props, o \in Observables :
          Has(listeners[o], FwdCb(p)) <=> observing[p] = o
    /\ \A p \in Props :
          observing[p] # NoObj => Get(Cur, p) = Get(Cur, observing[p])
    /\ (op.name = "bind" /\ op.ok /\ op.was # NoObj /\ op.was # op.src)
          => /\ observing[op.obj] = op.src
             /\ ~Has(listeners[op.was], FwdCb(op.obj))

\* C29: bind(S) of a property whose bound source is S succeeds and changes
\* nothing: no value, no bound source, no listener Set, and no listener is
\* invoked.
C29_RebindSameSourceIsNoOp ==
    [][(op'.name = "bind" /\ op'.src # NoObj /\ op'.src = observing[op'.obj])
          => /\ op'.ok
             /\ value' = value /\ bvalue' = bvalue
             /\ observing' = observing /\ listeners' = listeners
             /\ log' = <<>>]_vars

C29_Witness ==
    /\ op.name = "bind" /\ op.obj = "p1" /\ op.ok
    /\ op.src = "v2" /\ op.was = "v2" /\ observing["p1"] = "v2"
    /\ Len(listeners["v2"]) >= 2
    /\ Get(Cur, "p1") # Get(Cur, "v2")
    /\ log = <<>>

\* C30: in a successful bind of property p, and in every call on another
\* object while p is bound, p's listeners are invoked as by a set: if p's
\* value changes, each listener registered on p is invoked exactly once,
\* with (p, p's value before, its value after); if it does not change, no
\* listener of p is invoked.
C30_ForwardingNotifies ==
    [][\A p \in Props :
          (\/ op'.name = "bind" /\ op'.obj = p /\ op'.ok
           \/ observing[p] # NoObj /\ op'.obj # p)
             => IF value'[p] # value[p]
                THEN \A i \in 1..Len(listeners'[p]) :
                        LET at == Calls(log', listeners'[p][i], p)
                        IN  /\ Cardinality(at) = 1
                            /\ \A j \in at :
                                  log'[j] = <<listeners'[p][i], p, value[p], value'[p]>>
                ELSE ~Notified(log', p)]_vars

C30_Witness ==
    /\ op.name = "set" /\ op.obj = "p1" /\ op.ok /\ op.arg # op.old
    /\ observing["p3"] = "p1" /\ value["p3"] = op.arg
    /\ Len(listeners["p3"]) >= 2
    /\ Calls(log, PlainCb("L1"), "p3") # {}
    /\ Calls(log, PlainCb("L2"), "p3") # {}

\* C31: a callback registered on a property any number of times is
\* registered once: no listener Set holds a callback twice, no call invokes
\* a callback of one property more than once, and after removeListener the
\* callback is not registered on that property.
C31_RegisteredOnce ==
    /\ \A o \in Observables : \A i, j \in 1..Len(listeners[o]) :
          listeners[o][i] = listeners[o][j] => i = j
    /\ \A o \in Observables, l \in Plain :
          Cardinality(Calls(log, PlainCb(l), o)) <= 1
    /\ op.name = "removeListener" => ~Has(listeners[op.obj], PlainCb(op.src))

C31_Witness ==
    /\ op.name = "addListener" /\ op.obj = "p3" /\ op.src = "L1" /\ op.ok
    /\ listeners["p3"] = <<PlainCb("L1"), PlainCb("L2")>>

\* C32: in a set on a wrapper that changes its value while its view exists,
\* every listener of the view is invoked, every invocation made by the owner
\* or by a property bound to it comes before every invocation made by the
\* view, and the view hands its listeners the value the owner held before
\* the call and the value it holds after it.
C32_OwnerBeforeView ==
    (/\ op.name = "set" /\ op.obj \in Props /\ op.ok
     /\ readOnly[op.obj] # NoView /\ op.old # value[op.obj])
        => LET v == ViewOf(op.obj)
           IN  /\ InvokedBy(log, v) = listeners[v]
               /\ \A i, j \in 1..Len(log) :
                     (log[i][2] # v /\ log[j][2] = v) => i < j
               /\ \A j \in 1..Len(log) :
                     log[j][2] = v
                        => log[j][3] = op.old /\ log[j][4] = value[op.obj]

C32_Witness ==
    /\ op.name = "set" /\ op.obj = "p2" /\ op.ok /\ op.old # value["p2"]
    /\ observing["p1"] = "p2"
    /\ Calls(log, PlainCb("L1"), "p2") # {}
    /\ Calls(log, PlainCb("L2"), "p1") # {}
    /\ Len(listeners["v2"]) >= 2
    /\ log[Len(log)][2] = "v2" /\ log[Len(log)][3] = op.old

\* the arithmetic mutators of a NumberProperty
ArithmeticMembers ==
    {"add", "subtract", "multiply", "divide", "increment", "decrement"}

\* C33: an arithmetic mutator called on a NumberProperty that is bound
\* fails, whatever its argument, leaves get() of the property and of its view
\* as before the call, and invokes no listener.
C33_BoundArithmeticFails ==
    (/\ op.name \in ArithmeticMembers /\ op.obj \in Props
     /\ kind[op.obj] = "NumberProperty" /\ op.was # NoObj)
        => /\ ~op.ok
           /\ Get(Cur, op.obj) = op.old
           /\ Get(Cur, ViewOf(op.obj)) = op.old
           /\ observing[op.obj] = op.was
           /\ log = <<>>

C33_Witness ==
    /\ op.name = "increment" /\ op.obj = "p3" /\ ~op.ok
    /\ op.was = "p1" /\ observing["p3"] = "p1"
    /\ value["p3"] = Num(1) /\ readOnly["p3"] # NoView
    /\ listeners["p3"] # <<>> /\ listeners["v3"] # <<>>

\* how often a callback is in a Set of listeners
Occurrences(s, cb) == Cardinality({i \in 1..Len(s) : s[i] = cb})

\* C34: a Binding constructed over a list that names a property several times
\* has its listener once on every property of the list, and a set that changes
\* a property the listener is on recomputes the Binding exactly once and
\* invokes every listener of the Binding at most once.
C34_DuplicateSourcesRegisterOnce ==
    /\ (op.name = "new" /\ op.ok)
           => \A o \in Range(op.list) :
                  Occurrences(listeners[o], BindingCb(op.obj)) = 1
    /\ \A b \in Bindings :
           (/\ op.name = "set" /\ op.ok /\ Get(Cur, op.obj) # op.old
            /\ Has(listeners[op.obj], BindingCb(b)))
               => /\ Cardinality(Recomputes(log, b)) = 1
                  /\ \A l \in Plain : Cardinality(Calls(log, PlainCb(l), b)) <= 1

C34_Witness ==
    /\ op.name = "new" /\ op.obj = "B1" /\ op.ok
    /\ op.list = <<"p1", "p1">>
    /\ observables["B1"] = {"p1"}
    /\ listeners["p1"] = <<BindingCb("B1")>>

\* C40: a Binding whose construction failed on a listed source that is no
\* property has its listener on no property, and no later change invokes its
\* listener, that is, recomputes it.
C40_FailedBindingLeavesNoListener ==
    \A b \in Bindings :
        (compute[b].fn # "none" /\ ~Constructed(b))
            => /\ \A o \in Observables : ~Has(listeners[o], BindingCb(b))
               /\ Recomputes(log, b) = {}

\* C35: no notify is handed undefined as the old value, so its assertion never
\* fails: a set of a number on an unbound NumberProperty, whose own assertions
\* all pass, returns normally whatever the compute functions of the Bindings
\* that listen to it return.
C35_NotifyNeverGetsUnset ==
    (/\ op.name = "set" /\ op.obj \in Props /\ op.arg \in Numbers
     /\ kind[op.obj] = "NumberProperty" /\ op.was = NoObj)
        => op.ok

\* C36: every call returns after finitely many invocations of listeners: no
\* call nests notifications until the stack is exhausted, whatever was bound
\* and whatever Binding was constructed before.
C36_CallsReturn ==
    op.name \in {"set", "add", "bind"} => ~op.overflow

RECURSIVE SourceAt(_, _)
\* the n-th source up the bind links from p, NoObj where the links end
SourceAt(p, n) ==
    IF n = 0 THEN p
    ELSE LET q == SourceAt(p, n - 1)
         IN  IF q \in Props THEN observing[q] ELSE NoObj

\* p is reached from itself through bind links
OnCycle(p) == \E n \in 1..Cardinality(Props) : SourceAt(p, n) = p

\* C37: with bind links between Properties only, a property bound to itself
\* and longer cycles included, no call exhausts the stack, the properties on a
\* cycle hold one value, and a set on a property of a cycle fails and changes
\* nothing.
C37_BindCycles ==
    /\ ~op.overflow
    /\ \A p \in Props : OnCycle(p) => value[p] = value[observing[p]]
    /\ (op.name = "set" /\ OnCycle(op.obj))
           => ~op.ok /\ value[op.obj] = op.old /\ log = <<>>

C37_Witness ==
    /\ op.name = "bind" /\ op.obj = "p3" /\ op.src = "p1" /\ op.ok
    /\ observing = [p \in Props |-> CASE p = "p1" -> "p2"
                                      [] p = "p2" -> "p3"
                                      [] p = "p3" -> "p1"]
    /\ value["p1"] = Num(1)

\* the last invocation of callback cb by property o in a log
LastCall(lg, cb, o) ==
    lg[CHOOSE i \in Calls(lg, cb, o) : \A j \in Calls(lg, cb, o) : j <= i]

\* C38: when a listener registered on a source before a Property was bound to
\* it sets the source during a notification, then after the outermost set the
\* bound Property holds the value of the source, and the last invocation of
\* every listener of the source carried that value as the new one.
C38_ReentrantSetStaysConsistent ==
    \A p \in Props :
        (/\ op.name = "set" /\ op.ok /\ op.obj \in Props
         /\ observing[p] = op.obj
         /\ Has(listeners[op.obj], ReentrantCb)
         /\ IndexOf(listeners[op.obj], ReentrantCb)
                < IndexOf(listeners[op.obj], FwdCb(p)))
            => /\ value[p] = value[op.obj]
               /\ \A i \in 1..Len(listeners[op.obj]) :
                      Calls(log, listeners[op.obj][i], op.obj) # {}
                          => LastCall(log, listeners[op.obj][i], op.obj)[4]
                                 = value[op.obj]

\* C39: one set or add on a Property invokes every listener of every Binding
\* at most once, and with the value the Binding holds when the call returns,
\* also when the Binding reads the Property and a second property bound to it.
C39_OneNotificationPerSet ==
    \A b \in Bindings, l \in Plain :
        (op.name \in {"set", "add"} /\ op.ok /\ op.obj \in Props)
            => /\ Cardinality(Calls(log, PlainCb(l), b)) <= 1
               /\ \A i \in Calls(log, PlainCb(l), b) : log[i][4] = bvalue[b]

====
